---- MODULE Spec2Model ----
(***************************************************************************)
(* Verification model of two line-oriented scripts of the repository:      *)
(*   misc/rom_stats.py   section report per memory region                  *)
(*   misc/parse_dump.py  text memory dump to raw bytes                     *)
(* Text is modelled as sequences of one-character strings, so that         *)
(* strip(), split(), int(.., 16) and the regular expression are computed   *)
(* on the characters, as the scripts compute them.                         *)
(***************************************************************************)
EXTENDS Integers, Sequences, FiniteSets, TLC

\* Largest number of input lines a run of rom_stats.py consumes.
MaxLines == 3
\* Largest number of input lines a run of parse_dump.py consumes.
MaxDumpLines == 4

(***************************************************************************)
(* Python text primitives                                                  *)
(***************************************************************************)

\* the characters c with c.isspace() that a string here can hold: tab, line
\* feed, vertical tab (0B), form feed, carriage return, the separators 1C, 1D,
\* 1E, 1F, space, next line (85), no-break space (A0) and the ogham space
\* mark (U+1680); the other Unicode blanks (U+2000..U+200A, U+2028, U+2029,
\* U+202F, U+205F, U+3000) have no string literal
Whitespace ==
    {"\t", "\n", "", "\f", "\r", "", "", "", "", " ", "", " ", " "}

\* what int() strips around a literal: the same without 1C, 1D, 1E, 1F
IntWhitespace ==
    {"\t", "\n", "", "\f", "\r", " ", "", " ", " "}

\* str.strip() / str.split() whitespace
IsSpace(c) == c \in Whitespace

RECURSIVE LStripOf(_, _)
LStripOf(s, blanks) ==
    IF s # <<>> /\ Head(s) \in blanks THEN LStripOf(Tail(s), blanks) ELSE s

RECURSIVE RStripOf(_, _)
RStripOf(s, blanks) ==
    IF s # <<>> /\ s[Len(s)] \in blanks
    THEN RStripOf(SubSeq(s, 1, Len(s) - 1), blanks) ELSE s

LStrip(s) == LStripOf(s, Whitespace)
RStrip(s) == RStripOf(s, Whitespace)

\* line.strip()
Strip(s) == RStrip(LStrip(s))

\* the blanks int() skips before and behind the literal
IntStrip(s) == RStripOf(LStripOf(s, IntWhitespace), IntWhitespace)

RECURSIVE SplitWs(_, _, _)
SplitWs(s, cur, acc) ==
    IF s = <<>>
    THEN IF cur = <<>> THEN acc ELSE Append(acc, cur)
    ELSE IF IsSpace(Head(s))
         THEN SplitWs(Tail(s), <<>>, IF cur = <<>> THEN acc ELSE Append(acc, cur))
         ELSE SplitWs(Tail(s), Append(cur, Head(s)), acc)

\* line.split(): the maximal runs of non-whitespace characters, in order
Split(s) == SplitWs(s, <<>>, <<>>)

\* the decimal digits int() reads, by value: DecimalDigits[d + 1] holds the
\* characters of Unicode category Nd with value d that a string here can hold
\* (ASCII, Extended Arabic-Indic, NKo, Bengali, Gujarati, Tamil, Kannada,
\* Sinhala Lith, Lao, Myanmar Shan, Khmer, New Tai Lue, Tai Tham Hora and
\* Tham, Sundanese, Saurashtra, Javanese, Myanmar Tai Laing, Meetei Mayek)
DecimalDigits ==
    <<
      {"0", "۰", "߀", "০", "૦", "௦", "೦", "෦", "໐", "႐", "០", "᧐", "᪀", "᪐", "᮰", "꣐", "꧐", "꧰", "꯰"},
      {"1", "۱", "߁", "১", "૧", "௧", "೧", "෧", "໑", "႑", "១", "᧑", "᪁", "᪑", "᮱", "꣑", "꧑", "꧱", "꯱"},
      {"2", "۲", "߂", "২", "૨", "௨", "೨", "෨", "໒", "႒", "២", "᧒", "᪂", "᪒", "᮲", "꣒", "꧒", "꧲", "꯲"},
      {"3", "۳", "߃", "৩", "૩", "௩", "೩", "෩", "໓", "႓", "៣", "᧓", "᪃", "᪓", "᮳", "꣓", "꧓", "꧳", "꯳"},
      {"4", "۴", "߄", "৪", "૪", "௪", "೪", "෪", "໔", "႔", "៤", "᧔", "᪄", "᪔", "᮴", "꣔", "꧔", "꧴", "꯴"},
      {"5", "۵", "߅", "৫", "૫", "௫", "೫", "෫", "໕", "႕", "៥", "᧕", "᪅", "᪕", "᮵", "꣕", "꧕", "꧵", "꯵"},
      {"6", "۶", "߆", "৬", "૬", "௬", "೬", "෬", "໖", "႖", "៦", "᧖", "᪆", "᪖", "᮶", "꣖", "꧖", "꧶", "꯶"},
      {"7", "۷", "߇", "৭", "૭", "௭", "೭", "෭", "໗", "႗", "៧", "᧗", "᪇", "᪗", "᮷", "꣗", "꧗", "꧷", "꯷"},
      {"8", "۸", "߈", "৮", "૮", "௮", "೮", "෮", "໘", "႘", "៨", "᧘", "᪈", "᪘", "᮸", "꣘", "꧘", "꧸", "꯸"},
      {"9", "۹", "߉", "৯", "૯", "௯", "೯", "෯", "໙", "႙", "៩", "᧙", "᪉", "᪙", "᮹", "꣙", "꧙", "꧹", "꯹"}
    >>

DecimalZeros == DecimalDigits[1]

HexLetters == {"a", "b", "c", "d", "e", "f", "A", "B", "C", "D", "E", "F"}

HexDigits == HexLetters \cup UNION {DecimalDigits[k] : k \in 1..10}

DigitVal(c) ==
    CASE c \in {"a", "A"} -> 10  [] c \in {"b", "B"} -> 11
      [] c \in {"c", "C"} -> 12  [] c \in {"d", "D"} -> 13
      [] c \in {"e", "E"} -> 14  [] c \in {"f", "F"} -> 15
      [] OTHER -> (CHOOSE k \in 1..10 : c \in DecimalDigits[k]) - 1

\* digits of an integer literal: digit (_? digit)*, no other character
RECURSIVE DigitsOk(_, _)
DigitsOk(s, prev) ==
    IF s = <<>> THEN prev \in HexDigits
    ELSE IF Head(s) = "_" THEN prev \in HexDigits /\ DigitsOk(Tail(s), "_")
    ELSE Head(s) \in HexDigits /\ DigitsOk(Tail(s), Head(s))

RECURSIVE DigitsVal(_, _)
DigitsVal(s, acc) ==
    IF s = <<>> THEN acc
    ELSE IF Head(s) = "_" THEN DigitsVal(Tail(s), acc)
    ELSE DigitsVal(Tail(s), 16 * acc + DigitVal(Head(s)))

\* int(s, base=16): surrounding blanks, one optional ASCII sign, an optional
\* prefix of a zero digit and x / X (one underscore may follow it), then the
\* digits; a decimal digit of any script counts as its ASCII digit.
\* ok = FALSE is the ValueError.
HexInt(s) ==
    LET t      == IntStrip(s)
        signed == t # <<>> /\ Head(t) \in {"+", "-"}
        u      == IF signed THEN Tail(t) ELSE t
        pref   == Len(u) >= 2 /\ u[1] \in DecimalZeros /\ u[2] \in {"x", "X"}
        v      == IF pref THEN SubSeq(u, 3, Len(u)) ELSE u
        w      == IF pref /\ v # <<>> /\ Head(v) = "_" THEN Tail(v) ELSE v
        good   == w # <<>> /\ Head(w) # "_" /\ DigitsOk(w, "_")
        mag    == DigitsVal(w, 0)
    IN  IF good
        THEN [ok |-> TRUE, val |-> IF signed /\ Head(t) = "-" THEN 0 - mag ELSE mag]
        ELSE [ok |-> FALSE, val |-> 0]

(***************************************************************************)
(* misc/rom_stats.py                                                       *)
(***************************************************************************)

T_TEXT == <<"T", "E", "X", "T">>
T_DATA == <<"D", "A", "T", "A">>
T_BSS  == <<"B", "S", "S">>

\* t == "TEXT" or t == "DATA" or t == "BSS"
Kinds == {T_TEXT, T_DATA, T_BSS}

\* mutant of Retain: a numeric token that is no base-16 integer drops the
\* line instead of raising
RetainSkipMalformed(name, size, vma, lma, t) ==
    LET s == HexInt(size)
        v == HexInt(vma)
        l == HexInt(lma)
    IN  IF t \in Kinds /\ s.ok /\ v.ok /\ l.ok
        THEN [tag |-> "rec",
              rec |-> [name |-> name, size |-> s.val, vma |-> v.val,
                       lma |-> l.val, t |-> t]]
        ELSE [tag |-> "skip"]

\* the body of the parse loop after the tokens are unpacked (lines 21-22):
\* the numeric fields are converted only when the kind is retained
Retain(name, size, vma, lma, t) ==
    IF t \in Kinds
    THEN LET s == HexInt(size)
             v == HexInt(vma)
             l == HexInt(lma)
         IN  IF s.ok /\ v.ok /\ l.ok
             THEN [tag |-> "rec",
                   rec |-> [name |-> name, size |-> s.val, vma |-> v.val,
                            lma |-> l.val, t |-> t]]
             ELSE [tag |-> "error"]
    ELSE [tag |-> "skip"]

\* mutant of ParseLine: the 5-token layout is not accepted
ParseLineSixOnly(line) ==
    LET toks == Split(Strip(line))
    IN  IF Len(toks) = 6
        THEN Retain(toks[2], toks[3], toks[4], toks[5], toks[6])
        ELSE [tag |-> "skip"]

\* mutant of ParseLine: the 5-token layout takes lma from the wrong token
ParseLineLmaFromSize(line) ==
    LET toks == Split(Strip(line))
    IN  IF Len(toks) = 6
        THEN Retain(toks[2], toks[3], toks[4], toks[5], toks[6])
        ELSE IF Len(toks) = 5
             THEN Retain(toks[2], toks[3], toks[4], toks[3], toks[5])
             ELSE [tag |-> "skip"]

\* one iteration of the parse loop: "rec" appends a section, "skip" is the
\* continue / unretained kind, "error" is the uncaught ValueError of int()
ParseLine(line) ==
    LET toks == Split(Strip(line))
    IN  IF Len(toks) = 6
        THEN Retain(toks[2], toks[3], toks[4], toks[5], toks[6])
        ELSE IF Len(toks) = 5
             THEN Retain(toks[2], toks[3], toks[4], toks[4], toks[5])
             ELSE [tag |-> "skip"]

\* mutant of InsertByVma: x goes in front of the elements of equal key
RECURSIVE InsertByVmaUnstable(_, _)
InsertByVmaUnstable(sorted, x) ==
    IF sorted = <<>> THEN <<x>>
    ELSE IF x.vma <= Head(sorted).vma THEN <<x>> \o sorted
    ELSE <<Head(sorted)>> \o InsertByVmaUnstable(Tail(sorted), x)

\* insertion of x behind every element whose key is not larger
RECURSIVE InsertByVma(_, _)
InsertByVma(sorted, x) ==
    IF sorted = <<>> THEN <<x>>
    ELSE IF x.vma < Head(sorted).vma THEN <<x>> \o sorted
    ELSE <<Head(sorted)>> \o InsertByVma(Tail(sorted), x)

RECURSIVE SortFrom(_, _)
SortFrom(secs, acc) ==
    IF secs = <<>> THEN acc ELSE SortFrom(Tail(secs), InsertByVma(acc, Head(secs)))

\* sections.sort(key=lambda x: x[2]): stable, ascending vma
SortByVma(secs) == SortFrom(secs, <<>>)

KB(v) == v * 1024

FLASH_ORIGIN == 134217728
RAM_ORIGIN == 536870912

N_FLASH    == <<"F", "L", "A", "S", "H">>
N_FLASH_RO == <<"F", "L", "A", "S", "H", "_", "R", "O">>
N_RAM      == <<"R", "A", "M">>

\* the static region table, without its mutable 'used' entry
regions ==
    << [name |-> N_FLASH,    origin |-> FLASH_ORIGIN,           len |-> KB(256)],
       [name |-> N_FLASH_RO, origin |-> FLASH_ORIGIN + KB(256), len |-> KB(256)],
       [name |-> N_RAM,      origin |-> RAM_ORIGIN,             len |-> KB(96)] >>

NRegions == Len(regions)

\* mutant of RoundHalfEven: the quotient is truncated
RoundTruncate(n, d) == n \div d

\* round(n / d) to the nearest integer, ties to even (d > 0): what the
\* correctly rounded '.1f' conversion yields for these quotients
RoundHalfEven(n, d) ==
    LET q == n \div d
        r == n - q * d
    IN  IF 2 * r < d THEN q
        ELSE IF 2 * r > d THEN q + 1
        ELSE IF q % 2 = 0 THEN q ELSE q + 1

\* round(m * n / d), ties to even, for an even m and d > 0, computed on
\* the quotient and the remainder of n by d so that the products stay small
ScaledRound(m, n, d) ==
    LET a == n \div d
        b == n - a * d
    IN  m * a + RoundHalfEven(m * b, d)

\* f"{size/1024:7.1f}K ({100*size/rel:.1f}%)": both numbers in tenths,
\* neg is the minus sign the conversion prints for a negative value
hsize(size, rel) ==
    [k10 |-> ScaledRound(10, size, 1024),
     pct10 |-> ScaledRound(1000, size, rel),
     neg |-> size < 0]

\* mutant of in_region: the interval is closed at its upper end
in_regionClosed(region, addr) ==
    region.origin <= addr /\ addr <= region.origin + region.len

in_region(region, addr) ==
    region.origin <= addr /\ addr < region.origin + region.len

\* mutant of Belongs: the load address is not looked at
BelongsVmaOnly(sec, region) == in_region(region, sec.vma)

\* the condition of line 46
Belongs(sec, region) ==
    in_region(region, sec.vma) \/ in_region(region, sec.lma)

\* the line printed at line 48
SectionLine(sec, region) ==
    [kind |-> "section", region |-> region.name, t |-> sec.t, name |-> sec.name,
     h |-> hsize(sec.size, region.len)]

\* the line printed at line 50
BlankLine == [kind |-> "blank"]

\* the line printed at line 52
TotalLine(region, usedBytes) ==
    [kind |-> "total", region |-> region.name, h |-> hsize(usedBytes, region.len)]

(***************************************************************************)
(* Input lines of rom_stats.py the model draws from                        *)
(***************************************************************************)

\* 0 .data 00000100 20000000 08010000 DATA
L_data_split ==
    <<"0", " ", ".", "d", "a", "t", "a", " ", "0", "0", "0", "0", "0", "1", "0", "0", " ", "2", "0", "0", "0", "0", "0", "0", "0", " ", "0", "8", "0", "1", "0", "0", "0", "0", " ", "D", "A", "T", "A">>
\* 1 .text 00000800 08000000 TEXT
L_text5 ==
    <<"1", " ", ".", "t", "e", "x", "t", " ", "0", "0", "0", "0", "0", "8", "0", "0", " ", "0", "8", "0", "0", "0", "0", "0", "0", " ", "T", "E", "X", "T">>
\* 1 .text 00000800 08000000 08000000 TEXT
L_text6 ==
    <<"1", " ", ".", "t", "e", "x", "t", " ", "0", "0", "0", "0", "0", "8", "0", "0", " ", "0", "8", "0", "0", "0", "0", "0", "0", " ", "0", "8", "0", "0", "0", "0", "0", "0", " ", "T", "E", "X", "T">>
\* 2 .rodata 00000400 08000100 0803ffff DATA
L_rodata_same ==
    <<"2", " ", ".", "r", "o", "d", "a", "t", "a", " ", "0", "0", "0", "0", "0", "4", "0", "0", " ", "0", "8", "0", "0", "0", "1", "0", "0", " ", "0", "8", "0", "3", "f", "f", "f", "f", " ", "D", "A", "T", "A">>
\*   3 .bss<09>00001800 20000000 BSS
L_bss_ram ==
    <<" ", " ", "3", " ", ".", "b", "s", "s", "\t", "0", "0", "0", "0", "1", "8", "0", "0", " ", "2", "0", "0", "0", "0", "0", "0", "0", " ", "B", "S", "S">>
\* 4 .ro<0C>00000010<A0>08040000 TEXT<0B>
L_flash_ro ==
    <<"4", " ", ".", "r", "o", "\f", "0", "0", "0", "0", "0", "0", "1", "0", " ", "0", "8", "0", "4", "0", "0", "0", "0", " ", "T", "E", "X", "T", "">>
\* 5 .heap<1680>000000<9E8><6F0> 20018000 BSS
L_ram_end ==
    <<"5", " ", ".", "h", "e", "a", "p", " ", "0", "0", "0", "0", "0", "0", "২", "۰", " ", "2", "0", "0", "1", "8", "0", "0", "0", " ", "B", "S", "S">>
\* 1 .comment 00000010 00000000 00000000 NOTE
L_note ==
    <<"1", " ", ".", "c", "o", "m", "m", "e", "n", "t", " ", "0", "0", "0", "0", "0", "0", "1", "0", " ", "0", "0", "0", "0", "0", "0", "0", "0", " ", "0", "0", "0", "0", "0", "0", "0", "0", " ", "N", "O", "T", "E">>
\* Idx Name Size VMA LMA Type
L_header ==
    <<"I", "d", "x", " ", "N", "a", "m", "e", " ", "S", "i", "z", "e", " ", "V", "M", "A", " ", "L", "M", "A", " ", "T", "y", "p", "e">>
\* 2 .text zzzz 08000000 08000000 TEXT
L_bad_size ==
    <<"2", " ", ".", "t", "e", "x", "t", " ", "z", "z", "z", "z", " ", "0", "8", "0", "0", "0", "0", "0", "0", " ", "0", "8", "0", "0", "0", "0", "0", "0", " ", "T", "E", "X", "T">>
\* Sections:
L_sections ==
    <<"S", "e", "c", "t", "i", "o", "n", "s", ":">>
\* 6 .neg -100 08000000 TEXT
L_neg_size ==
    <<"6", " ", ".", "n", "e", "g", " ", "-", "1", "0", "0", " ", "0", "8", "0", "0", "0", "0", "0", "0", " ", "T", "E", "X", "T">>
\* <1F>7 .x<1C>00000010 08000000 text<85>
L_lower_kind ==
    <<"", "7", " ", ".", "x", "", "0", "0", "0", "0", "0", "0", "1", "0", " ", "0", "8", "0", "0", "0", "0", "0", "0", " ", "t", "e", "x", "t", "">>
\* 8 .y 00000010 08000000 08000000 00001000 TEXT
L_seven ==
    <<"8", " ", ".", "y", " ", "0", "0", "0", "0", "0", "0", "1", "0", " ", "0", "8", "0", "0", "0", "0", "0", "0", " ", "0", "8", "0", "0", "0", "0", "0", "0", " ", "0", "0", "0", "0", "1", "0", "0", "0", " ", "T", "E", "X", "T">>

Lines ==
    {L_data_split, L_text5, L_text6, L_rodata_same, L_bss_ram, L_flash_ro,
     L_ram_end, L_note, L_header, L_bad_size, L_sections, L_neg_size,
     L_lower_kind, L_seven}

(***************************************************************************)
(* State                                                                   *)
(***************************************************************************)

VARIABLES
    pc,             \* rom_stats.py: "parse", "classify", "summary", "done", "error"
    input,          \* rom_stats.py: the lines read so far
    sections,       \* rom_stats.py: the list sections
    used,           \* rom_stats.py: regions[r]['used']
    out,            \* rom_stats.py: the lines printed so far
    si,             \* rom_stats.py: position of the outer loop of line 41
    ri,             \* rom_stats.py: position of the region loops of lines 45, 51
    dpc,            \* parse_dump.py: "run", "done", "error"
    dinput,         \* parse_dump.py: the lines read so far
    expected_addr,  \* parse_dump.py: expected_addr
    written         \* parse_dump.py: the byte strings written, one per write()

romVars == <<pc, input, sections, used, out, si, ri>>
dumpVars == <<dpc, dinput, expected_addr, written>>
vars == <<pc, input, sections, used, out, si, ri, dpc, dinput, expected_addr, written>>

RomInit ==
    /\ pc = "parse"
    /\ input = <<>>
    /\ sections = <<>>
    /\ used = [r \in 1..NRegions |-> 0]
    /\ out = <<>>
    /\ si = 1
    /\ ri = 1

DumpInit ==
    /\ dpc = "run"
    /\ dinput = <<>>
    /\ expected_addr = 0
    /\ written = <<>>

Init == RomInit /\ DumpInit

(***************************************************************************)
(* rom_stats.py, step by step                                              *)
(***************************************************************************)

\* one iteration of the loop of line 6
ReadLine ==
    /\ pc = "parse"
    /\ Len(input) < MaxLines
    /\ \E line \in Lines :
         LET p == ParseLine(line)
         IN  /\ input' = Append(input, line)
             /\ sections' = IF p.tag = "rec" THEN Append(sections, p.rec) ELSE sections
             /\ pc' = IF p.tag = "error" THEN "error" ELSE "parse"
    /\ UNCHANGED <<used, out, si, ri>>

\* the input is exhausted: line 24, then the loops of line 41 start
EndOfInput ==
    /\ pc = "parse"
    /\ sections' = SortByVma(sections)
    /\ pc' = "classify"
    /\ si' = 1
    /\ ri' = 1
    /\ UNCHANGED <<input, used, out>>

\* mutant of ClassifyRegion: the two addresses are counted one by one
ClassifyRegionPerAddress(st, sec, r) ==
    LET n == (IF in_region(regions[r], sec.vma) THEN 1 ELSE 0)
               + (IF in_region(regions[r], sec.lma) THEN 1 ELSE 0)
        l == SectionLine(sec, regions[r])
    IN  [used |-> [st.used EXCEPT ![r] = @ + n * sec.size],
         out  |-> st.out \o (IF n = 0 THEN <<>> ELSE IF n = 1 THEN <<l>> ELSE <<l, l>>)]

\* lines 46-48 for one section and one region
ClassifyRegion(st, sec, r) ==
    IF Belongs(sec, regions[r])
    THEN [used |-> [st.used EXCEPT ![r] = @ + sec.size],
          out  |-> Append(st.out, SectionLine(sec, regions[r]))]
    ELSE st

\* one iteration of the inner loop of line 45
Classify ==
    /\ pc = "classify"
    /\ si <= Len(sections)
    /\ LET st == ClassifyRegion([used |-> used, out |-> out], sections[si], ri)
       IN  /\ used' = st.used
           /\ out' = st.out
    /\ IF ri < NRegions
       THEN ri' = ri + 1 /\ si' = si
       ELSE ri' = 1 /\ si' = si + 1
    /\ UNCHANGED <<pc, input, sections>>

\* line 50
PrintBlank ==
    /\ pc = "classify"
    /\ si > Len(sections)
    /\ out' = Append(out, BlankLine)
    /\ pc' = "summary"
    /\ ri' = 1
    /\ UNCHANGED <<input, sections, used, si>>

\* one iteration of the loop of line 51
PrintTotal ==
    /\ pc = "summary"
    /\ out' = Append(out, TotalLine(regions[ri], used[ri]))
    /\ IF ri < NRegions
       THEN ri' = ri + 1 /\ pc' = pc
       ELSE ri' = ri /\ pc' = "done"
    /\ UNCHANGED <<input, sections, used, si>>

Next ==
    \/ ReadLine /\ UNCHANGED dumpVars
    \/ EndOfInput /\ UNCHANGED dumpVars
    \/ Classify /\ UNCHANGED dumpVars
    \/ PrintBlank /\ UNCHANGED dumpVars
    \/ PrintTotal /\ UNCHANGED dumpVars

Spec == Init /\ [][Next]_vars

(***************************************************************************)
(* rom_stats.py as a function of its input                                 *)
(***************************************************************************)

\* the parse loop on the outcomes of its iterations, in input order
RECURSIVE ParseAll(_, _)
ParseAll(ps, acc) ==
    IF ps = <<>> THEN [tag |-> "ok", sections |-> acc]
    ELSE IF Head(ps).tag = "error" THEN [tag |-> "error"]
    ELSE ParseAll(Tail(ps), IF Head(ps).tag = "rec" THEN Append(acc, Head(ps).rec) ELSE acc)

RECURSIVE ClassifySection(_, _, _)
ClassifySection(st, sec, r) ==
    IF r > NRegions THEN st
    ELSE ClassifySection(ClassifyRegion(st, sec, r), sec, r + 1)

RECURSIVE ClassifyAll(_, _)
ClassifyAll(st, secs) ==
    IF secs = <<>> THEN st
    ELSE ClassifyAll(ClassifySection(st, Head(secs), 1), Tail(secs))

\* the whole run, given what ParseLine makes of each input line: how it
\* ends, the totals and the output
RunParsed(ps) ==
    LET p == ParseAll(ps, <<>>)
    IN  IF p.tag = "error"
        THEN [pc |-> "error", used |-> [r \in 1..NRegions |-> 0], out |-> <<>>]
        ELSE LET st == ClassifyAll([used |-> [r \in 1..NRegions |-> 0], out |-> <<>>],
                                   SortByVma(p.sections))
             IN  [pc |-> "done", used |-> st.used,
                  out |-> st.out \o <<BlankLine>>
                            \o [r \in 1..NRegions |-> TotalLine(regions[r], st.used[r])]]

\* what ParseLine makes of each of the given lines, in order
RECURSIVE ParseEach(_)
ParseEach(lines) ==
    IF lines = <<>> THEN <<>>
    ELSE <<ParseLine(Head(lines))>> \o ParseEach(Tail(lines))

\* the whole run on the given lines
Run(lines) == RunParsed(ParseEach(lines))

\* a finished run of the step-by-step program is the function's value
RunAgrees ==
    pc \in {"done", "error"} => [pc |-> pc, used |-> used, out |-> out] = Run(input)

(***************************************************************************)
(* Vocabulary of the properties, stated on the input text and the region   *)
(* table rather than through the parse and classification operators        *)
(***************************************************************************)

RECURSIVE SumSeq(_)
SumSeq(s) == IF s = <<>> THEN 0 ELSE Head(s) + SumSeq(Tail(s))

RECURSIVE JoinSp(_)
JoinSp(toks) ==
    IF toks = <<>> THEN <<>>
    ELSE IF Len(toks) = 1 THEN toks[1]
    ELSE toks[1] \o <<" ">> \o JoinSp(Tail(toks))

\* the permutations of 1..n, for every n up to the longest input
PermTable ==
    [n \in 0..MaxLines |->
        {p \in [1..n -> 1..n] : \A a, b \in 1..n : p[a] = p[b] => a = b}]
Perms(n) == PermTable[n]

\* what the text of a line says: its tokens, whether their count is one of
\* the two layouts, its last token, and whether the numeric tokens of the
\* layout (size, vma and, with 6 tokens, lma) are base-16 integers
Shape(line) ==
    LET t == Split(line)
        n == Len(t)
    IN  [toks   |-> t,
         n      |-> n,
         layout |-> n \in {5, 6},
         kind   |-> IF n > 0 THEN t[n] ELSE <<>>,
         numOk  |-> n \in {5, 6} =>
                      \A k \in (IF n = 6 THEN {3, 4, 5} ELSE {3, 4}) : HexInt(t[k]).ok]

KindRetained(sh) == sh.layout /\ sh.kind \in {T_TEXT, T_DATA, T_BSS}
YieldsRecord(sh) == KindRetained(sh) /\ sh.numOk
Malformed(sh) == sh.layout /\ ~sh.numOk

\* the shapes of the lines the input is drawn from, computed once
ShapeOf == [l \in Lines |-> Shape(l)]

RECURSIVE ShapeEach(_)
ShapeEach(lines) ==
    IF lines = <<>> THEN <<>> ELSE <<ShapeOf[Head(lines)]>> \o ShapeEach(Tail(lines))

\* the shapes of the lines read so far
Shapes == ShapeEach(input)

\* the 5-token line rewritten in the 6-token layout, lma spelled out as vma
AsSixTokens(line) ==
    LET t == Split(line)
    IN  JoinSp(<<t[1], t[2], t[3], t[4], t[4], t[5]>>)

\* addr lies in [origin, origin + len) of region r
Within(addr, r) ==
    regions[r].origin <= addr /\ addr < regions[r].origin + regions[r].len
Matches(sec, r) == Within(sec.vma, r) \/ Within(sec.lma, r)
MatchedRegions(sec) == {r \in 1..NRegions : Matches(sec, r)}

\* the classification loop has finished section i for region r
Classified(i, r) ==
    \/ pc \in {"summary", "done"}
    \/ pc = "classify" /\ (i < si \/ (i = si /\ r < ri))

Sorted == pc \in {"classify", "summary", "done"}

\* sizes of the sections already classified for region r that lie in it
CountedSizes(r) ==
    [i \in 1..Len(sections) |->
        IF Classified(i, r) /\ Matches(sections[i], r) THEN sections[i].size ELSE 0]

\* report lines printed so far for region r
LinesFor(r) ==
    SelectSeq(out, LAMBDA l : l.kind = "section" /\ l.region = regions[r].name)

\* the report line of section sec in region r, at its full size
FullLine(sec, r) ==
    [kind |-> "section", region |-> regions[r].name, t |-> sec.t, name |-> sec.name,
     h |-> hsize(sec.size, regions[r].len)]

\* position in out behind which the lines of section i start
Offset(i) ==
    SumSeq([j \in 1..(i - 1) |-> Cardinality(MatchedRegions(sections[j]))])

\* the lines printed for section i, once it is classified for every region
LinesOf(i) ==
    SubSeq(out, Offset(i) + 1, Offset(i) + Cardinality(MatchedRegions(sections[i])))

\* total of region r without the contribution of section i
UsedWithout(r, i) ==
    used[r] - SumSeq([j \in 1..Len(sections) |->
                        IF j # i /\ Matches(sections[j], r) THEN sections[j].size ELSE 0])

(***************************************************************************)
(* C1: a retained section prints one line for a region and adds its full   *)
(* size once to that region's total exactly when its vma or its lma lies   *)
(* in [origin, origin+len); otherwise it prints nothing for the region and *)
(* leaves the total alone.  The summary totals are the sums of the sizes   *)
(* of the sections lying in each region.                                   *)
(***************************************************************************)
C1_ClassificationByRegion ==
    Sorted =>
      \A r \in 1..NRegions :
        LET mine == SelectSeq([i \in 1..Len(sections) |-> [i |-> i, s |-> sections[i]]],
                              LAMBDA x : Classified(x.i, r) /\ Matches(x.s, r))
        IN  /\ used[r] = SumSeq(CountedSizes(r))
            /\ LinesFor(r) = [k \in 1..Len(mine) |-> FullLine(mine[k].s, r)]
            /\ pc = "done" =>
                 out[Len(out) - NRegions + r] =
                   [kind |-> "total", region |-> regions[r].name,
                    h |-> hsize(SumSeq(CountedSizes(r)), regions[r].len)]

C1_Witness ==
    /\ pc = "done"
    /\ \E i \in 1..Len(sections) : MatchedRegions(sections[i]) = {}
    /\ \E i \in 1..Len(sections) : MatchedRegions(sections[i]) = {2}
    /\ used[1] > 0

(***************************************************************************)
(* C2: a section whose lma lies in one region and whose vma lies in        *)
(* another prints exactly two lines, one per region, each at the full      *)
(* size, and adds the full size to both totals; no section matches more    *)
(* than two of the three regions.                                          *)
(***************************************************************************)
Straddles(sec) ==
    \E a, b \in 1..NRegions : a # b /\ Within(sec.lma, a) /\ Within(sec.vma, b)

C2_TwoRegionsFullSize ==
    pc \in {"summary", "done"} =>
      \A i \in 1..Len(sections) :
        LET sec == sections[i]
            m   == MatchedRegions(sec)
        IN  /\ Cardinality(m) <= 2
            /\ Straddles(sec) =>
                 \E a, b \in m :
                   /\ a < b
                   /\ LinesOf(i) = <<FullLine(sec, a), FullLine(sec, b)>>
                   /\ UsedWithout(a, i) = sec.size
                   /\ UsedWithout(b, i) = sec.size

C2_Witness ==
    /\ pc = "done"
    /\ Len(sections) >= 2
    /\ \E i \in 1..Len(sections) :
         /\ Within(sections[i].lma, 1) /\ Within(sections[i].vma, 3)
         /\ Offset(i) > 0

(***************************************************************************)
(* C3: a section whose vma and lma both lie in one and the same region,    *)
(* at equal or at different addresses, is counted once in that region and  *)
(* prints exactly one line for it.                                         *)
(***************************************************************************)
C3_SameRegionOnce ==
    pc \in {"summary", "done"} =>
      \A i \in 1..Len(sections) :
        \A r \in 1..NRegions :
          LET sec == sections[i]
          IN  Within(sec.vma, r) /\ Within(sec.lma, r) =>
                /\ LinesOf(i) = <<FullLine(sec, r)>>
                /\ UsedWithout(r, i) = sec.size
                /\ Len(LinesFor(r)) =
                     Cardinality({j \in 1..Len(sections) : Matches(sections[j], r)})

C3_Witness ==
    /\ pc = "done"
    /\ \E i \in 1..Len(sections) :
         /\ sections[i].vma # sections[i].lma
         /\ Within(sections[i].vma, 1) /\ Within(sections[i].lma, 1)
         /\ sections[i].size > 0

(***************************************************************************)
(* C4 (as amended): a line yields a section record exactly when it splits  *)
(* into 5 or 6 tokens, its last token is TEXT, DATA or BSS, and its size,  *)
(* vma and lma tokens are base-16 integers; a line of any other token      *)
(* count or any other kind is skipped without record, output, change of a  *)
(* total or error; the run aborts exactly on a 5- or 6-token line of a     *)
(* retained kind with a numeric token that is no base-16 integer.          *)
(***************************************************************************)
C4_RetainedIffLayoutKindAndHex ==
    LET sh   == Shapes
        n    == Len(sh)
        kept == SelectSeq(sh, YieldsRecord)
    IN  /\ Len(sections) = Len(kept)
        /\ pc = "error" <=> (n > 0 /\ KindRetained(sh[n]) /\ ~sh[n].numOk)
        /\ \A i \in 1..(n - 1) : ~(KindRetained(sh[i]) /\ ~sh[i].numOk)
        /\ pc \in {"parse", "error"} =>
             /\ out = <<>>
             /\ \A r \in 1..NRegions : used[r] = 0
             /\ \A j \in 1..Len(kept) :
                  /\ sections[j].name = kept[j].toks[2]
                  /\ sections[j].t = kept[j].kind

C4_Witness ==
    /\ pc = "parse"
    /\ Len(sections) = 2
    /\ \E i, j, k \in 1..Len(input) :
         /\ Shapes[i].n = 5 /\ YieldsRecord(Shapes[i])
         /\ Shapes[j].n = 6 /\ YieldsRecord(Shapes[j])
         /\ ~KindRetained(Shapes[k])

\* C4 as stated: the token count and the kind alone decide whether a line
\* yields a record, and no line with them is an error.
C4_AsStated ==
    Len(sections) = Len(SelectSeq(Shapes, KindRetained))

(***************************************************************************)
(* C5 (as amended): when a 5- or 6-token line whose kind is TEXT, DATA or  *)
(* BSS has a size, vma or lma token that is no base-16 integer, the run    *)
(* aborts and nothing is printed, neither a section line nor a summary     *)
(* line, wherever the line sits in the input.                              *)
(***************************************************************************)
C5_MalformedRetainedKindAborts ==
    LET sh == Shapes
    IN  (\E i \in 1..Len(sh) : KindRetained(sh[i]) /\ Malformed(sh[i])) =>
            /\ pc = "error"
            /\ out = <<>>
            /\ \A r \in 1..NRegions : used[r] = 0

C5_Witness ==
    /\ pc = "error"
    /\ Len(input) = 3
    /\ Len(sections) >= 1
    /\ \E i \in 1..Len(input) : Malformed(Shapes[i]) /\ ~KindRetained(Shapes[i])

\* C5 as stated: a malformed numeric token aborts the run whatever the
\* kind token of its line.
C5_AsStated ==
    (\E i \in 1..Len(input) : Malformed(Shapes[i])) => pc = "error" /\ out = <<>>

(***************************************************************************)
(* C6: a record read from the 5-token layout has lma = vma, and the run    *)
(* (how it ends, the totals, every printed line) is the run of the input   *)
(* in which that line is written in the 6-token layout with lma equal to   *)
(* vma.                                                                    *)
(***************************************************************************)
C6_FiveTokenLayoutIsSixWithEqualLma ==
    /\ pc = "parse" =>
         LET kept == SelectSeq(Shapes, YieldsRecord)
         IN  \A j \in 1..Len(sections) :
               kept[j].n = 5 =>
                 /\ sections[j].lma = sections[j].vma
                 /\ sections[j].vma = HexInt(kept[j].toks[4]).val
    /\ pc = "done" =>
         LET sh == Shapes
             ps == ParseEach(input)
         IN  \A i \in 1..Len(input) :
               sh[i].n = 5 /\ YieldsRecord(sh[i]) =>
                 RunParsed([ps EXCEPT ![i] = ParseLine(AsSixTokens(input[i]))]) =
                   [pc |-> pc, used |-> used, out |-> out]

C6_Witness ==
    /\ pc = "done"
    /\ \E i \in 1..Len(input) :
         /\ Shapes[i].n = 5 /\ YieldsRecord(Shapes[i])
         /\ AsSixTokens(input[i]) # input[i]
         /\ Shape(AsSixTokens(input[i])).n = 6
         /\ \E k \in 1..Len(out) : out[k].kind = "section" /\ out[k].name = Shapes[i].toks[2]

(***************************************************************************)
(* C7: nothing is printed before the whole input is parsed; the section    *)
(* lines come in ascending vma order of their sections, sections of equal  *)
(* vma in input order, the lines of one section in the order FLASH,        *)
(* FLASH_RO, RAM; the blank line and the three totals follow in that same  *)
(* order; and no permutation of the input lines changes a final total.     *)
(***************************************************************************)
\* the retained records in input order
RecordsOf(lines) ==
    LET kept == SelectSeq(lines, LAMBDA l : YieldsRecord(ShapeOf[l]))
    IN  ParseAll(ParseEach(kept), <<>>).sections

\* the one ordering of 1..Len(recs) by ascending vma, ties by position
StableOrder(recs) ==
    CHOOSE p \in Perms(Len(recs)) :
      \A a, b \in 1..Len(recs) :
        a < b => \/ recs[p[a]].vma < recs[p[b]].vma
                 \/ recs[p[a]].vma = recs[p[b]].vma /\ p[a] < p[b]

RECURSIVE Flatten(_)
Flatten(ss) == IF ss = <<>> THEN <<>> ELSE Head(ss) \o Flatten(Tail(ss))

\* the lines of one section, in region configuration order
RegionLines(sec) ==
    LET rs == SelectSeq([r \in 1..NRegions |-> r], LAMBDA r : Matches(sec, r))
    IN  [k \in 1..Len(rs) |-> FullLine(sec, rs[k])]

C7_ReportOrder ==
    /\ pc \in {"parse", "error"} => out = <<>>
    /\ pc = "done" =>
         LET recs == RecordsOf(input)
             p    == StableOrder(recs)
             body == Flatten([k \in 1..Len(recs) |-> RegionLines(recs[p[k]])])
         IN  /\ SubSeq(out, 1, Len(out) - NRegions - 1) = body
             /\ out[Len(out) - NRegions].kind = "blank"
             /\ \A r \in 1..NRegions :
                  /\ out[Len(out) - NRegions + r].kind = "total"
                  /\ out[Len(out) - NRegions + r].region = regions[r].name
             /\ LET ps == ParseEach(input)
                IN  \A q \in Perms(Len(input)) :
                      RunParsed([k \in 1..Len(input) |-> ps[q[k]]]).used = used

C7_Witness ==
    /\ pc = "done"
    /\ Len(sections) = 3
    /\ sections[1].vma < sections[2].vma
    /\ sections[2].vma = sections[3].vma
    /\ sections[2].name # sections[3].name
    /\ RecordsOf(input)[1].vma > RecordsOf(input)[2].vma
    /\ Cardinality(MatchedRegions(sections[2])) = 2

(***************************************************************************)
(* C8 (as stated): every retained record has size >= 0, so no region       *)
(* total ever decreases or is negative.                                    *)
(***************************************************************************)
C8_SizeNonNegative ==
    /\ \A i \in 1..Len(sections) : sections[i].size >= 0
    /\ \A r \in 1..NRegions : used[r] >= 0

(***************************************************************************)
(* C9 (as amended): the single line                                        *)
(*   0 .data 00000100 20000000 08010000 DATA                               *)
(* yields one record of size 256, vma 0x20000000, lma 0x08010000, and two  *)
(* report lines: FLASH at 0.1% and RAM at 0.3% (100 * 256 / 98304 printed  *)
(* with one decimal); FLASH and RAM total 256, FLASH_RO stays 0.           *)
(***************************************************************************)
C9_Scenario ==
    input = <<L_data_split>> /\ pc = "done" =>
      /\ sections = << [name |-> <<".", "d", "a", "t", "a">>, size |-> 256,
                        vma |-> 536870912, lma |-> 134283264, t |-> T_DATA] >>
      /\ Len(out) = 2 + 1 + NRegions
      /\ out[1] = [kind |-> "section", region |-> N_FLASH, t |-> T_DATA,
                   name |-> <<".", "d", "a", "t", "a">>,
                   h |-> [k10 |-> 2, pct10 |-> 1, neg |-> FALSE]]
      /\ out[2] = [kind |-> "section", region |-> N_RAM, t |-> T_DATA,
                   name |-> <<".", "d", "a", "t", "a">>,
                   h |-> [k10 |-> 2, pct10 |-> 3, neg |-> FALSE]]
      /\ used = <<256, 0, 256>>
      /\ regions[1].len = 262144
      /\ regions[3].len = 98304

C9_Witness ==
    input = <<L_data_split>> /\ pc = "done" /\ Len(out) > NRegions + 1

\* C9 as stated: the FLASH line shows 0.1% and the RAM line 0.26%, that is
\* 10 and 26 hundredths of a percent
C9_AsStated ==
    input = <<L_data_split>> /\ pc = "done" =>
      /\ out[1].h.pct10 * 10 = 10
      /\ out[2].h.pct10 * 10 = 26

(***************************************************************************)
(* misc/parse_dump.py                                                      *)
(***************************************************************************)

LowerHexDigits ==
    {"0", "1", "2", "3", "4", "5", "6", "7", "8", "9", "a", "b", "c", "d", "e", "f"}

\* the character class [0-9a-z, ]
ValueChars ==
    {"0", "1", "2", "3", "4", "5", "6", "7", "8", "9",
     "a", "b", "c", "d", "e", "f", "g", "h", "i", "j", "k", "l", "m",
     "n", "o", "p", "q", "r", "s", "t", "u", "v", "w", "x", "y", "z", ",", " "}

\* re.match("^([0-9a-f]{8}) \[([0-9a-z, ]+)\]$", s) and its two groups; the
\* $ matches at the end of s and in front of a line feed that ends s
ReMatch(s) ==
    LET n == IF s # <<>> /\ s[Len(s)] = "\n" THEN Len(s) - 1 ELSE Len(s)
    IN  IF /\ n >= 12
           /\ \A k \in 1..8 : s[k] \in LowerHexDigits
           /\ s[9] = " "
           /\ s[10] = "["
           /\ \A k \in 11..(n - 1) : s[k] \in ValueChars
           /\ s[n] = "]"
        THEN [matched |-> TRUE, addr |-> SubSeq(s, 1, 8), values |-> SubSeq(s, 11, n - 1)]
        ELSE [matched |-> FALSE]

RECURSIVE SplitCommaSpace(_, _, _)
SplitCommaSpace(s, cur, acc) ==
    IF s = <<>> THEN Append(acc, cur)
    ELSE IF Len(s) >= 2 /\ s[1] = "," /\ s[2] = " "
         THEN SplitCommaSpace(SubSeq(s, 3, Len(s)), <<>>, Append(acc, cur))
         ELSE SplitCommaSpace(Tail(s), Append(cur, Head(s)), acc)

\* values.split(', ')
SplitValues(s) == SplitCommaSpace(s, <<>>, <<>>)

\* mutant of AddressMismatch: only an address behind the expected one is refused
AddressBehind(addr, expected) == addr < expected

\* the test of line 19
AddressMismatch(addr, expected) == addr # expected

\* bytes(values) accepts integers of 0..255 only
IsByte(v) == 0 <= v /\ v <= 255

(***************************************************************************)
(* Input lines of parse_dump.py the model draws from                       *)
(***************************************************************************)

\* 00000000 [de, ad]
D_a0 ==
    <<"0", "0", "0", "0", "0", "0", "0", "0", " ", "[", "d", "e", ",", " ", "a", "d", "]">>
\* <85>00000010 [01]<0C>
D_a16 ==
    <<"", "0", "0", "0", "0", "0", "0", "1", "0", " ", "[", "0", "1", "]", "\f">>
\*  00000020 [0x1f, 7, ff]
D_a32 ==
    <<" ", "0", "0", "0", "0", "0", "0", "2", "0", " ", "[", "0", "x", "1", "f", ",", " ", "7", ",", " ", "f", "f", "]">>
\* 00000030 [00]<1680>
D_a48 ==
    <<"0", "0", "0", "0", "0", "0", "3", "0", " ", "[", "0", "0", "]", " ">>
\* Dump:
D_text ==
    <<"D", "u", "m", "p", ":">>
\* <1D>0000001A [01]
D_upper ==
    <<"", "0", "0", "0", "0", "0", "0", "1", "A", " ", "[", "0", "1", "]">>
\* 00000010 [zz]
D_badv ==
    <<"0", "0", "0", "0", "0", "0", "1", "0", " ", "[", "z", "z", "]">>
\* 00000000 [100]
D_big ==
    <<"0", "0", "0", "0", "0", "0", "0", "0", " ", "[", "1", "0", "0", "]">>
\* 00000010 [1,2]
D_nosp ==
    <<"0", "0", "0", "0", "0", "0", "1", "0", " ", "[", "1", ",", "2", "]">>

DumpLines ==
    {D_a0, D_a16, D_a32, D_a48, D_text, D_upper, D_badv, D_big, D_nosp}

\* one iteration of the loop of line 9 on the state st = [dpc, expected_addr,
\* written]: the state after it
DumpStep(st, line) ==
    LET m == ReMatch(Strip(line))
    IN  IF ~m.matched THEN st
        ELSE LET addr   == HexInt(m.addr).val
                 pieces == SplitValues(m.values)
                 values == [k \in 1..Len(pieces) |-> HexInt(pieces[k])]
             IN  IF \E k \in 1..Len(values) : ~values[k].ok
                 THEN \* ValueError of line 17
                      [st EXCEPT !.dpc = "error"]
                 ELSE IF AddressMismatch(addr, st.expected_addr)
                 THEN \* RuntimeError of line 20
                      [st EXCEPT !.dpc = "error"]
                 ELSE IF \A k \in 1..Len(values) : IsByte(values[k].val)
                 THEN [st EXCEPT !.expected_addr = @ + 16,
                                 !.written = Append(@, [k \in 1..Len(values) |-> values[k].val])]
                 ELSE \* ValueError of bytes(), line 23, behind line 22
                      [st EXCEPT !.expected_addr = @ + 16, !.dpc = "error"]

DumpLine ==
    /\ dpc = "run"
    /\ Len(dinput) < MaxDumpLines
    /\ \E line \in DumpLines :
         LET st == DumpStep([dpc |-> dpc, expected_addr |-> expected_addr,
                             written |-> written], line)
         IN  /\ dinput' = Append(dinput, line)
             /\ dpc' = st.dpc
             /\ expected_addr' = st.expected_addr
             /\ written' = st.written

\* the input is exhausted
DumpEnd ==
    /\ dpc = "run"
    /\ dpc' = "done"
    /\ UNCHANGED <<dinput, expected_addr, written>>

NextDump ==
    \/ DumpLine /\ UNCHANGED romVars
    \/ DumpEnd /\ UNCHANGED romVars

SpecDump == Init /\ [][NextDump]_vars

(***************************************************************************)
(* C10: bytes are written for a dump line only if its address is 16 times  *)
(* the number of dump lines accepted before it, so the accepted addresses  *)
(* are 0, 16, 32, ... without gap, repeat or reordering; the expected      *)
(* address advances by 16 per accepted line whatever the number of its     *)
(* values; other lines are skipped without advancing it; the first dump    *)
(* line with another address ends the run in an error, and neither it nor  *)
(* any later line writes a byte.                                           *)
(***************************************************************************)
\* the dump lines among the lines read so far, as matched
DumpLinesRead ==
    SelectSeq([i \in 1..Len(dinput) |-> ReMatch(Strip(dinput[i]))],
              LAMBDA m : m.matched)

C10_AddressesContiguous ==
    LET dl == DumpLinesRead
        k  == Len(written)
    IN  /\ k <= Len(dl)
        /\ Len(dl) <= k + 1
        /\ \A j \in 1..k :
             /\ HexInt(dl[j].addr).val = 16 * (j - 1)
             /\ LET pieces == SplitValues(dl[j].values)
                IN  written[j] = [x \in 1..Len(pieces) |-> HexInt(pieces[x]).val]
        /\ dpc # "error" => Len(dl) = k /\ expected_addr = 16 * k
        /\ dpc = "error" =>
             /\ Len(dl) = k + 1
             /\ ReMatch(Strip(dinput[Len(dinput)])).matched
             /\ expected_addr \in {16 * k, 16 * (k + 1)}
             /\ expected_addr = 16 * (k + 1) => HexInt(dl[k + 1].addr).val = 16 * k
        /\ \A j \in 1..Len(dl) :
             HexInt(dl[j].addr).val # 16 * (j - 1) =>
               dpc = "error" /\ j = k + 1 /\ expected_addr = 16 * k

C10_Witness ==
    /\ dpc = "error"
    /\ Len(written) = 1
    /\ Len(written[1]) = 2
    /\ Len(dinput) = 3
    /\ ~ReMatch(Strip(dinput[2])).matched
    /\ HexInt(ReMatch(Strip(dinput[3])).addr).val = 32
    /\ expected_addr = 16

====
